---- MODULE Spec2Model ----
(***************************************************************************)
(* The hyperparameter-tuning notebook kerascont/version2_jason.ipynb as a  *)
(* state machine.  One action per code cell, run top to bottom in a fresh  *)
(* kernel; a cell that raises ends the run.  The kernel's globals, the     *)
(* local docker daemon, S3, ECR and the SageMaker tuning service are the   *)
(* state.  What a run is given is state too: the labels load_data()        *)
(* returns, the values written in the tuning-config cell (the notebook's,  *)
(* or a caller's customization of them) and the time the job is named at.  *)
(* Shell lines ("!command") never raise; check_call, the SDK and boto3 do. *)
(***************************************************************************)
EXTENDS Integers, Sequences, FiniteSets, TLC

\* ------------------------------------------------------------------ bounds

\* Longest label array load_data() returns for a split.
MaxExamples == 2

\* Most status polls the caller makes.
MaxPolls == 2

\* Training jobs a tuning job launches before the model stops counting.
MaxTrials == 3

\* ------------------------------------------------- environment cell (71-91)

NUM_CLASSES == 10

region == "us-east-1"

account == "023375022819"

bucket == "sagemaker-" \o region \o "-" \o account

prefix == "sagemaker/DEMO-hpo-keras-cifar10"

role == "execution-role"

\* ------------------------------------------------------ build cell (125-146)

\* Mutant: the tag is the version alone, without the "tensorflow-" prefix.
get_image_name_TagOnly(ecr_repository_, tensorflow_version_tag_) ==
    ecr_repository_ \o ":" \o tensorflow_version_tag_

get_image_name(ecr_repository_, tensorflow_version_tag_) ==
    ecr_repository_ \o ":tensorflow-" \o tensorflow_version_tag_

tensorflow_version_tag == "1.10.1"

ecr_repository == account \o ".dkr.ecr." \o region \o ".amazonaws.com/test"

\* ----------------------------------------------------- upload cell (162-180)

\* Label values load_data() may hand to the packager: the lowest and the
\* highest class index, and the first value that is not a class index.
LabelValues == {0, NUM_CLASSES - 1, NUM_CLASSES}

LabelArrays == UNION {[1..n -> LabelValues] : n \in 1..MaxExamples}

\* Mutant: the bound check is off by one, so the label num_classes passes.
to_categorical_raises_OffByOne(y, num_classes) ==
    \E i \in 1..Len(y) : y[i] > num_classes

\* numpy's categorical[np.arange(n), y] = 1 on an n x num_classes array of
\* zeros raises IndexError when an index is outside the row.
to_categorical_raises(y, num_classes) ==
    \E i \in 1..Len(y) : y[i] >= num_classes

to_categorical(y, num_classes) ==
    [i \in 1..Len(y) |-> [j \in 0..(num_classes - 1) |-> IF j = y[i] THEN 1 ELSE 0]]

\* Mutant: the channel name is left out of the prefix.
key_prefix_Shared(channel_name) == "data/DEMO-keras-cifar10"

key_prefix(channel_name) == "data/DEMO-keras-cifar10/" \o channel_name

\* sagemaker_session.upload_data returns the S3 URI of the uploaded prefix.
upload_data(bucket_, key_prefix_) == "s3://" \o bucket_ \o "/" \o key_prefix_

\* The archive np.savez_compressed writes: features x (their count) and labels y.
Archive(key, x, y) == [key |-> key, x |-> x, y |-> y]

ChannelNames == {"train", "test"}

\* --------------------------------------------------------------- the state

VARIABLES
    pc,                      \* the cell the run is at, or "done" / "aborted"
    error,                   \* the exception that ended the run, or "none"
    defined,                 \* the names bound in the kernel
    image_name,
    channels,
    hyperparameters,
    output_location,
    tuning_job_name,
    tuning_job_config,
    training_job_definition,
    docker_images,           \* images tagged in the local docker daemon
    docker_login,            \* the daemon holds ECR credentials
    s3,                      \* archives in the bucket
    ecr_repos,               \* repositories in the registry
    ecr_images,              \* images pushed to the registry
    jobs,                    \* tuning jobs known to the service
    issued,                  \* external commands and calls, in order
    local_runs,              \* local-mode training runs started
    status_seen,             \* what the status polls returned, in order
    trials,                  \* training jobs of the run's tuning job: running, launched
    cifar10,                 \* the labels load_data() returns, per split
    literals,                \* the values written in the tuning-config cell
    gmtime,                  \* the UTC time the tuning-config cell reads
    version_tag              \* the value written for tensorflow_version_tag

vars == <<pc, error, defined, image_name, channels, hyperparameters,
          output_location, tuning_job_name, tuning_job_config,
          training_job_definition, docker_images, docker_login, s3, ecr_repos,
          ecr_images, jobs, issued, local_runs, status_seen, trials, cifar10,
          literals, gmtime, version_tag>>

kernel == <<defined, image_name, channels, hyperparameters, output_location,
            tuning_job_name, tuning_job_config, training_job_definition>>

world == <<docker_images, docker_login, s3, ecr_repos, ecr_images, jobs,
           local_runs, status_seen, trials>>

\* What a run reads and never writes.
given == <<cifar10, literals, gmtime, version_tag>>

\* The value of a record-valued global that is not bound yet.
Unbound == [unbound |-> TRUE]

Op(op, ok) == [op |-> op, ok |-> ok]

\* A cell raised: the kernel stops the run.
Raise(exception) ==
    /\ pc' = "aborted"
    /\ error' = exception

Goto(cell) ==
    /\ pc' = cell
    /\ error' = error

\* The code cell that follows a code cell in the notebook.
\* Mutant: the push cell stands before the local test.
Successor_PushBeforeLocalTest(cell) ==
    CASE cell = "build" -> "upload"
      [] cell = "upload" -> "push"
      [] cell = "push" -> "hyperparameters"
      [] cell = "hyperparameters" -> "local"
      [] cell = "local" -> "tuning_config"
      [] cell = "tuning_config" -> "training_definition"
      [] cell = "training_definition" -> "submit"
      [] cell = "submit" -> "status"
      [] cell = "status" -> "done"

Successor(cell) ==
    CASE cell = "build" -> "upload"
      [] cell = "upload" -> "hyperparameters"
      [] cell = "hyperparameters" -> "local"
      [] cell = "local" -> "push"
      [] cell = "push" -> "tuning_config"
      [] cell = "tuning_config" -> "training_definition"
      [] cell = "training_definition" -> "submit"
      [] cell = "submit" -> "status"
      [] cell = "status" -> "done"

\* The tuning-config cell as the notebook has it (389-401).
NotebookLiterals ==
    [ContinuousParameterRanges |->
        <<[MaxValue |-> "0.001", MinValue |-> "0.0001", Name |-> "learning_rate"]>>,
     IntegerParameterRanges |-> <<>>,
     MaxNumberOfTrainingJobs |-> 9,
     MaxParallelTrainingJobs |-> 9]

\* The cell as a caller may customize it: other bounds for learning_rate, an
\* integer range for epochs, other resource limits.
ContinuousEdits ==
    {<<[MaxValue |-> hi, MinValue |-> lo, Name |-> "learning_rate"]>> :
        lo \in {"0.0001", "0.001"}, hi \in {"0.0001", "0.001"}}

IntegerEdits == {<<>>, <<[MaxValue |-> "5", MinValue |-> "1", Name |-> "epochs"]>>}

EditedLiterals ==
    [ContinuousParameterRanges : ContinuousEdits,
     IntegerParameterRanges : IntegerEdits,
     MaxNumberOfTrainingJobs : {1, 9},
     MaxParallelTrainingJobs : {1, 9}]

\* The time of the recorded run (374), and one with single-digit fields.
RecordedTime == [tm_mday |-> 28, tm_hour |-> 18, tm_min |-> 37, tm_sec |-> 26]

Times == {RecordedTime, [tm_mday |-> 1, tm_hour |-> 0, tm_min |-> 5, tm_sec |-> 9]}

Datasets == [y_train : LabelArrays, y_test : LabelArrays]

OneExampleDatasets == {d \in Datasets : Len(d.y_train) = 1 /\ Len(d.y_test) = 1}

\* The kernel after the environment cell, and the world as it finds it.
InitGiven(datasets, edits, times, earlier, versions) ==
    /\ version_tag \in versions
    /\ cifar10 \in datasets
    /\ literals \in edits
    /\ gmtime \in times
    /\ pc = "build"
    /\ error = "none"
    /\ defined = {"region", "sagemaker_session", "smclient", "bucket", "prefix",
                  "role", "NUM_CLASSES"}
    /\ image_name = ""
    /\ channels = Unbound
    /\ hyperparameters = Unbound
    /\ output_location = ""
    /\ tuning_job_name = ""
    /\ tuning_job_config = Unbound
    /\ training_job_definition = Unbound
    /\ docker_images = {}
    /\ docker_login = FALSE
    /\ s3 = {}
    /\ ecr_repos \in {{}, {"test"}}
    /\ ecr_images = {}
    /\ jobs \in earlier
    /\ issued = <<>>
    /\ local_runs = <<>>
    /\ status_seen = <<>>
    /\ trials = [running |-> 0, launched |-> 0]

\* The build cell as written, tensorflow_version_tag = '1.10.1'.
InitWith(datasets, edits, times, earlier) ==
    InitGiven(datasets, edits, times, earlier, {tensorflow_version_tag})

\* Every customization of the tuning-config cell, on one-example splits.
Init == InitWith(OneExampleDatasets, EditedLiterals, Times, {{}})

\* The notebook as written, on every dataset within the bounds.
InitPackager == InitWith(Datasets, {NotebookLiterals}, {RecordedTime}, {{}})

\* ------------------------------------------------------ build cell (125-146)

\* Mutant: subprocess.call in place of check_call, the exit code is dropped.
build_image_ExitCodeDropped(name, version, exit_ok) ==
    /\ issued' = Append(issued, [op |-> "docker build", ok |-> exit_ok,
                                 tag |-> name, VERSION |-> version])
    /\ docker_images' = IF exit_ok THEN docker_images \cup {name} ELSE docker_images
    /\ Goto(Successor("build"))

\* Mutant: a failed build is tried once more before the error is raised.
build_image_Retried(name, version, exit_ok) ==
    /\ issued' = issued
          \o (IF exit_ok THEN <<>>
              ELSE <<[op |-> "docker build", ok |-> FALSE, tag |-> name,
                      VERSION |-> version]>>)
          \o <<[op |-> "docker build", ok |-> exit_ok, tag |-> name,
                VERSION |-> version]>>
    /\ docker_images' = IF exit_ok THEN docker_images \cup {name} ELSE docker_images
    /\ IF exit_ok THEN Goto(Successor("build")) ELSE Raise("CalledProcessError")

\* build_image: docker build -t name --build-arg VERSION=version, check_call.
build_image(name, version, exit_ok) ==
    /\ issued' = Append(issued, [op |-> "docker build", ok |-> exit_ok,
                                 tag |-> name, VERSION |-> version])
    /\ docker_images' = IF exit_ok THEN docker_images \cup {name} ELSE docker_images
    /\ IF exit_ok THEN Goto(Successor("build")) ELSE Raise("CalledProcessError")

BuildCell ==
    /\ pc = "build"
    /\ image_name' = get_image_name(ecr_repository, version_tag)
    /\ defined' = defined \cup {"get_image_name", "build_image",
                                "tensorflow_version_tag", "account",
                                "ecr_repository", "image_name"}
    /\ \E exit_ok \in BOOLEAN : build_image(image_name', version_tag, exit_ok)
    /\ UNCHANGED <<channels, hyperparameters, output_location, tuning_job_name,
                   tuning_job_config, training_job_definition, docker_login, s3,
                   ecr_repos, ecr_images, jobs, local_runs, status_seen>>
    /\ UNCHANGED trials
    /\ UNCHANGED given

\* ----------------------------------------------------- upload cell (162-180)

S3Put(store, object) == {o \in store : o.key # object.key} \cup {object}

\* upload_channel: one-hot encode, write the archive, upload it under the
\* channel's key prefix.  The result is what the call raised, the object it
\* put (if any) and the location it returned.
upload_channel(channel_name, x, y, upload_ok) ==
    IF to_categorical_raises(y, NUM_CLASSES)
    THEN [raised |-> "IndexError", put |-> {}, location |-> ""]
    ELSE IF ~upload_ok
    THEN [raised |-> "S3UploadFailedError", put |-> {}, location |-> ""]
    ELSE [raised |-> "none",
          put |-> {Archive(key_prefix(channel_name) \o "/cifar-10-npz-compressed.npz",
                           x, to_categorical(y, NUM_CLASSES))},
          location |-> upload_data(bucket, key_prefix(channel_name))]

\* Mutant: a failure of the test split is swallowed and the map is returned
\* with the train location alone.
upload_training_data_Partial(y_train, y_test, train_ok, test_ok) ==
    LET train == upload_channel("train", Len(y_train), y_train, train_ok)
        test  == upload_channel("test", Len(y_test), y_test, test_ok)
    IN  IF train.raised # "none"
        THEN [raised |-> train.raised, puts |-> <<>>, calls |-> <<"train">>,
              value |-> Unbound]
        ELSE [raised |-> "none",
              puts |-> <<train.put>> \o (IF test.raised = "none" THEN <<test.put>> ELSE <<>>),
              calls |-> <<"train", "test">>,
              value |-> [train |-> train.location, test |-> test.location]]

\* upload_training_data: the train split, then the test split.
upload_training_data(y_train, y_test, train_ok, test_ok) ==
    LET train == upload_channel("train", Len(y_train), y_train, train_ok)
        test  == upload_channel("test", Len(y_test), y_test, test_ok)
    IN  IF train.raised # "none"
        THEN [raised |-> train.raised, puts |-> <<>>, calls |-> <<"train">>,
              value |-> Unbound]
        ELSE [raised |-> test.raised,
              puts |-> <<train.put>> \o (IF test.raised = "none" THEN <<test.put>> ELSE <<>>),
              calls |-> <<"train", "test">>,
              value |-> IF test.raised = "none"
                        THEN [train |-> train.location, test |-> test.location]
                        ELSE Unbound]

RECURSIVE S3PutAll(_, _)
S3PutAll(store, puts) ==
    IF puts = <<>> THEN store
    ELSE S3PutAll(S3Put(store, CHOOSE o \in Head(puts) : TRUE), Tail(puts))

\* The upload_channel calls of one upload_training_data, as issued operations.
UploadOps(r) ==
    [i \in 1..Len(r.calls) |->
        [op |-> "upload_channel", channel |-> r.calls[i],
         ok |-> (i < Len(r.calls) \/ r.raised = "none")]]

UploadCell ==
    /\ pc = "upload"
    /\ \E train_ok \in BOOLEAN, test_ok \in BOOLEAN :
          LET r == upload_training_data(cifar10.y_train, cifar10.y_test,
                                        train_ok, test_ok)
          IN  /\ s3' = S3PutAll(s3, r.puts)
              /\ issued' = issued \o UploadOps(r)
              /\ IF r.raised = "none"
                 THEN /\ channels' = r.value
                      /\ defined' = defined \cup {"upload_channel",
                                                  "upload_training_data", "channels"}
                      /\ Goto(Successor("upload"))
                 ELSE /\ channels' = channels
                      /\ defined' = defined \cup {"upload_channel", "upload_training_data"}
                      /\ Raise(r.raised)
    /\ UNCHANGED <<image_name, hyperparameters, output_location, tuning_job_name,
                   tuning_job_config, training_job_definition, docker_images,
                   docker_login, ecr_repos, ecr_images, jobs, local_runs, status_seen>>
    /\ UNCHANGED trials
    /\ UNCHANGED given

\* ------------------------------------------- local smoke test (213-215, 277-284)

HyperparametersCell ==
    /\ pc = "hyperparameters"
    /\ hyperparameters' = [batch_size |-> "32", data_augmentation |-> "True",
                           learning_rate |-> "0.0001", width_shift_range |-> "0.1",
                           height_shift_range |-> "0.1", epochs |-> "1"]
    /\ defined' = defined \cup {"hyperparameters"}
    /\ Goto(Successor("hyperparameters"))
    /\ UNCHANGED <<image_name, channels, output_location, tuning_job_name,
                   tuning_job_config, training_job_definition, issued>>
    /\ UNCHANGED world
    /\ UNCHANGED given

S3OutputPath(bucket_, prefix_) == "s3://" \o bucket_ \o "/" \o prefix_ \o "/output"

\* The outcomes of estimator.fit in local mode: the container exits 0, exits
\* non-zero (RuntimeError), or the caller interrupts the blocking call.
LocalOutcomes == {"none", "RuntimeError", "KeyboardInterrupt"}

\* The cell up to the blocking call: estimator.fit starts the container.
LocalRunCell ==
    /\ pc = "local"
    /\ IF ~({"bucket", "prefix"} \subseteq defined)
       THEN /\ UNCHANGED <<defined, output_location, local_runs>>
            /\ Goto(Successor("local"))
       ELSE /\ output_location' = S3OutputPath(bucket, prefix)
            /\ IF ~({"image_name", "role", "hyperparameters"} \subseteq defined)
               THEN /\ defined' = defined \cup {"output_location"}
                    /\ UNCHANGED local_runs
                    /\ Goto(Successor("local"))
               ELSE IF "channels" \notin defined
               THEN /\ defined' = defined \cup {"output_location", "estimator"}
                    /\ UNCHANGED local_runs
                    /\ Goto(Successor("local"))
               ELSE /\ defined' = defined \cup {"output_location", "estimator"}
                    /\ local_runs' = Append(local_runs,
                          [image |-> image_name, inputs |-> channels,
                           hyperparameters |-> hyperparameters,
                           output_path |-> output_location', outcome |-> "running"])
                    /\ Goto("local_running")
    /\ UNCHANGED <<image_name, channels, hyperparameters, tuning_job_name,
                   tuning_job_config, training_job_definition, docker_images,
                   docker_login, s3, ecr_repos, ecr_images, jobs, status_seen,
                   issued>>
    /\ UNCHANGED trials
    /\ UNCHANGED given

\* estimator.fit returns, raises, or is interrupted by the caller.  %%time
\* catches what it raises and shows the traceback: the cell ends without an
\* error whatever the outcome.
LocalRunReturns ==
    /\ pc = "local_running"
    /\ \E outcome \in LocalOutcomes :
          /\ local_runs' = [local_runs EXCEPT ![Len(local_runs)].outcome = outcome]
          /\ issued' = Append(issued, [op |-> "estimator.fit", ok |-> (outcome = "none")])
    /\ Goto(Successor("local"))
    /\ UNCHANGED kernel
    /\ UNCHANGED <<docker_images, docker_login, s3, ecr_repos, ecr_images, jobs,
                   status_seen>>
    /\ UNCHANGED trials
    /\ UNCHANGED given

\* "Testing the container locally (optional)": the caller goes on to the push
\* cell without running the rest of the section.
SkipLocalTest ==
    /\ pc \in {"hyperparameters", "local"}
    /\ Goto(Successor("local"))
    /\ UNCHANGED <<issued>>
    /\ UNCHANGED kernel
    /\ UNCHANGED world
    /\ UNCHANGED given

\* ------------------------------------------------------- push cell (335-347)

algorithm_name == "test"

\* aws ecr describe-repositories --repository-names name: the description on
\* stdout, or RepositoryNotFoundException on stderr.
describe_repositories(repos, name) ==
    IF name \in repos
    THEN [stdout |-> <<"repositories">>, stderr |-> <<>>]
    ELSE [stdout |-> <<>>, stderr |-> <<"RepositoryNotFoundException">>]

\* "> /dev/null 2>&1": both streams go to /dev/null.
DevNull(output) == [stdout |-> <<>>, stderr |-> <<>>]

\* IPython's "name = !command": the lines the command left on its streams.
getoutput(output) == output.stdout \o output.stderr

exist_repo(repos) == getoutput(DevNull(describe_repositories(repos, algorithm_name)))

\* Python's "not exist_repo" on the captured list.
not_exist_repo(repos) == exist_repo(repos) = <<>>

PushCell ==
    /\ pc = "push"
    /\ defined' = defined \cup {"algorithm_name", "exist_repo"}
    /\ \E create_ok \in BOOLEAN, login_ok \in BOOLEAN, push_ok \in BOOLEAN :
          LET created == not_exist_repo(ecr_repos) /\ algorithm_name \notin ecr_repos
                         /\ create_ok
              pushed  == push_ok /\ login_ok /\ algorithm_name \in ecr_repos'
                         /\ image_name \in docker_images
          IN  /\ ecr_repos' = IF created THEN ecr_repos \cup {algorithm_name}
                              ELSE ecr_repos
              /\ docker_login' = login_ok
              /\ ecr_images' = IF pushed THEN ecr_images \cup {image_name}
                               ELSE ecr_images
              /\ issued' = issued
                    \o <<Op("aws ecr describe-repositories", algorithm_name \in ecr_repos)>>
                    \o (IF not_exist_repo(ecr_repos)
                        THEN <<Op("aws ecr create-repository", created)>> ELSE <<>>)
                    \o <<Op("aws ecr get-login", login_ok), Op("docker push", pushed)>>
    /\ Goto(Successor("push"))
    /\ UNCHANGED <<image_name, channels, hyperparameters, output_location,
                   tuning_job_name, tuning_job_config, training_job_definition,
                   docker_images, s3, jobs, local_runs, status_seen>>
    /\ UNCHANGED trials
    /\ UNCHANGED given

\* ---------------------------------------------- tuning job config (379-407)

Digits == <<"0", "1", "2", "3", "4", "5", "6", "7", "8", "9">>

\* A two-digit, zero-padded field of strftime.
Pad2(n) == Digits[(n \div 10) + 1] \o Digits[(n % 10) + 1]

\* Mutant: the month joins the stamp, "%m-%d-%H-%M-%S", taken as October.
strftime_WithMonth(t) ==
    "10-" \o Pad2(t.tm_mday) \o "-" \o Pad2(t.tm_hour) \o "-" \o Pad2(t.tm_min)
        \o "-" \o Pad2(t.tm_sec)

\* strftime("%d-%H-%M-%S", t)
strftime(t) ==
    Pad2(t.tm_mday) \o "-" \o Pad2(t.tm_hour) \o "-" \o Pad2(t.tm_min) \o "-"
        \o Pad2(t.tm_sec)

TuningJobName(t) == "BYO-keras-tuningjob-" \o strftime(t)

\* Mutant: the continuous and the integer ranges change places.
TuningJobConfig_RangesMisplaced(continuous, integer, max_jobs, max_parallel) ==
    [ParameterRanges |->
        [CategoricalParameterRanges |-> <<>>,
         ContinuousParameterRanges |-> integer,
         IntegerParameterRanges |-> continuous],
     ResourceLimits |->
        [MaxNumberOfTrainingJobs |-> max_jobs,
         MaxParallelTrainingJobs |-> max_parallel],
     Strategy |-> "Bayesian",
     HyperParameterTuningJobObjective |-> [MetricName |-> "loss", Type |-> "Minimize"]]

\* Mutant: the limit on parallel training jobs is written from the total.
TuningJobConfig_ParallelFromTotal(continuous, integer, max_jobs, max_parallel) ==
    [ParameterRanges |->
        [CategoricalParameterRanges |-> <<>>,
         ContinuousParameterRanges |-> continuous,
         IntegerParameterRanges |-> integer],
     ResourceLimits |->
        [MaxNumberOfTrainingJobs |-> max_jobs,
         MaxParallelTrainingJobs |-> max_jobs],
     Strategy |-> "Bayesian",
     HyperParameterTuningJobObjective |-> [MetricName |-> "loss", Type |-> "Minimize"]]

TuningJobConfig(continuous, integer, max_jobs, max_parallel) ==
    [ParameterRanges |->
        [CategoricalParameterRanges |-> <<>>,
         ContinuousParameterRanges |-> continuous,
         IntegerParameterRanges |-> integer],
     ResourceLimits |->
        [MaxNumberOfTrainingJobs |-> max_jobs,
         MaxParallelTrainingJobs |-> max_parallel],
     Strategy |-> "Bayesian",
     HyperParameterTuningJobObjective |-> [MetricName |-> "loss", Type |-> "Minimize"]]

TuningConfigCell ==
    /\ pc = "tuning_config"
    /\ tuning_job_name' = TuningJobName(gmtime)
    /\ tuning_job_config' = TuningJobConfig(literals.ContinuousParameterRanges,
                                            literals.IntegerParameterRanges,
                                            literals.MaxNumberOfTrainingJobs,
                                            literals.MaxParallelTrainingJobs)
    /\ defined' = defined \cup {"tuning_job_name", "tuning_job_config"}
    /\ Goto(Successor("tuning_config"))
    /\ UNCHANGED <<image_name, channels, hyperparameters, output_location,
                   training_job_definition, issued>>
    /\ UNCHANGED world
    /\ UNCHANGED given

\* ------------------------------------------ training job definition (442-502)

StaticHyperParameters ==
    [batch_size |-> "32", data_augmentation |-> "True", height_shift_range |-> "0.1",
     width_shift_range |-> "0.1", epochs |-> "1"]

InputChannel(name, uri) ==
    [ChannelName |-> name,
     DataSource |-> [S3DataSource |-> [S3DataType |-> "S3Prefix", S3Uri |-> uri,
                                       S3DataDistributionType |-> "FullyReplicated"]],
     CompressionType |-> "None",
     RecordWrapperType |-> "None"]

\* Mutant: each channel entry takes the other channel's location.
InputDataConfig_Swapped(channels_) ==
    <<InputChannel("train", channels_.test), InputChannel("test", channels_.train)>>

InputDataConfig(channels_) ==
    <<InputChannel("train", channels_.train), InputChannel("test", channels_.test)>>

\* Mutant: the metric definition extracts val_loss, under that name.
TrainingJobDefinition_MetricRenamed(training_image, channels_) ==
    [AlgorithmSpecification |->
        [MetricDefinitions |-> <<[Name |-> "val_loss", Regex |-> "val_loss: ([0-9\\.]+)"]>>,
         TrainingImage |-> training_image,
         TrainingInputMode |-> "File"],
     InputDataConfig |-> InputDataConfig(channels_),
     OutputDataConfig |-> [S3OutputPath |-> S3OutputPath(bucket, prefix)],
     ResourceConfig |-> [InstanceCount |-> 1, InstanceType |-> "ml.c5.xlarge",
                         VolumeSizeInGB |-> 100],
     RoleArn |-> role,
     StaticHyperParameters |-> StaticHyperParameters,
     StoppingCondition |-> [MaxRuntimeInSeconds |-> 43200]]

TrainingJobDefinition(training_image, channels_) ==
    [AlgorithmSpecification |->
        [MetricDefinitions |-> <<[Name |-> "loss", Regex |-> "loss: ([0-9\\.]+)"]>>,
         TrainingImage |-> training_image,
         TrainingInputMode |-> "File"],
     InputDataConfig |-> InputDataConfig(channels_),
     OutputDataConfig |-> [S3OutputPath |-> S3OutputPath(bucket, prefix)],
     ResourceConfig |-> [InstanceCount |-> 1, InstanceType |-> "ml.c5.xlarge",
                         VolumeSizeInGB |-> 100],
     RoleArn |-> role,
     StaticHyperParameters |-> StaticHyperParameters,
     StoppingCondition |-> [MaxRuntimeInSeconds |-> 43200]]

\* The names the cell reads, in the order it reads them.
TrainingDefinitionReads == {"image_name", "output_location", "channels", "bucket",
                            "prefix", "role"}

TrainingDefinitionCell ==
    /\ pc = "training_definition"
    /\ IF TrainingDefinitionReads \subseteq defined
       THEN /\ training_job_definition' = TrainingJobDefinition(image_name, channels)
            /\ defined' = defined \cup {"training_image", "training_job_definition"}
            /\ Goto(Successor("training_definition"))
       ELSE /\ training_job_definition' = training_job_definition
            /\ defined' = defined \cup (IF "image_name" \in defined
                                        THEN {"training_image"} ELSE {})
            /\ Raise("NameError")
    /\ UNCHANGED <<image_name, channels, hyperparameters, output_location,
                   tuning_job_name, tuning_job_config, issued>>
    /\ UNCHANGED world
    /\ UNCHANGED given

\* ------------------------------------------------------ submit cell (539-541)

JobNames == {j.name : j \in jobs}

\* Mutant: the service registers the job although it answers with an error.
create_hyper_parameter_tuning_job_RegistersAnyway(name, config, definition, accepted) ==
    IF name \notin {j.name : j \in jobs}
    THEN jobs \cup {[name |-> name, config |-> config, definition |-> definition,
                     status |-> "InProgress"]}
    ELSE jobs

\* Mutant: a refused request still leaves a job holding the configuration
\* alone.
create_hyper_parameter_tuning_job_Partial(name, config, definition, accepted) ==
    IF name \notin {j.name : j \in jobs}
    THEN jobs \cup {[name |-> name, config |-> config,
                     definition |-> IF accepted THEN definition ELSE Unbound,
                     status |-> "InProgress"]}
    ELSE jobs

\* create_hyper_parameter_tuning_job: one request carrying the name and both
\* documents.  The service registers the job, InProgress, or answers with an
\* error (ClientError) and registers nothing; a name in use is always refused.
create_hyper_parameter_tuning_job(name, config, definition, accepted) ==
    IF accepted /\ name \notin JobNames
    THEN jobs \cup {[name |-> name, config |-> config, definition |-> definition,
                     status |-> "InProgress"]}
    ELSE jobs

\* The names the cell reads.
SubmitReads == {"smclient", "tuning_job_name", "tuning_job_config",
                "training_job_definition"}

\* The service's answer: the job's ARN (200), or an error that boto3 raises
\* as ClientError.
ServiceAnswersOk(name, accepted) == accepted /\ name \notin JobNames

SubmitCell ==
    /\ pc = "submit"
    /\ IF SubmitReads \subseteq defined
       THEN \E accepted \in BOOLEAN :
              /\ jobs' = create_hyper_parameter_tuning_job(tuning_job_name,
                            tuning_job_config, training_job_definition, accepted)
              /\ issued' = Append(issued, Op("create_hyper_parameter_tuning_job",
                                             ServiceAnswersOk(tuning_job_name, accepted)))
              /\ IF ServiceAnswersOk(tuning_job_name, accepted)
                 THEN Goto(Successor("submit")) ELSE Raise("ClientError")
       ELSE /\ Raise("NameError")
            /\ UNCHANGED <<jobs, issued>>
    /\ UNCHANGED kernel
    /\ UNCHANGED <<docker_images, docker_login, s3, ecr_repos, ecr_images,
                   local_runs, status_seen>>
    /\ UNCHANGED trials
    /\ UNCHANGED given

\* ------------------------------------------------------ status cell (567-568)

\* Mutant: the cell reads HyperParameterTuningJobName out of the response.
describe_hyper_parameter_tuning_job_WrongField(name) ==
    {j.name : j \in {k \in jobs : k.name = name}}

\* Mutant: the poll answers with the status the job was created with.
describe_hyper_parameter_tuning_job_Stale(name) ==
    {"InProgress" : j \in {k \in jobs : k.name = name}}

\* describe_hyper_parameter_tuning_job(...)['HyperParameterTuningJobStatus']
describe_hyper_parameter_tuning_job(name) ==
    {j.status : j \in {k \in jobs : k.name = name}}

\* Mutant: the status cell binds the service's response to tuning_job_config.
StatusCell_Overwrites ==
    /\ pc \in {"status", "done"}
    /\ Len(status_seen) < MaxPolls
    /\ LET found == describe_hyper_parameter_tuning_job(tuning_job_name)
       IN  IF found = {}
           THEN /\ Raise("ClientError")
                /\ issued' = Append(issued, Op("describe_hyper_parameter_tuning_job", FALSE))
                /\ UNCHANGED <<status_seen, tuning_job_config>>
           ELSE /\ Goto(Successor("status"))
                /\ issued' = Append(issued, Op("describe_hyper_parameter_tuning_job", TRUE))
                /\ status_seen' = Append(status_seen, CHOOSE st \in found : TRUE)
                /\ tuning_job_config' =
                      [HyperParameterTuningJobStatus |-> CHOOSE st \in found : TRUE]
    /\ UNCHANGED <<defined, image_name, channels, hyperparameters, output_location,
                   tuning_job_name, training_job_definition>>
    /\ UNCHANGED <<docker_images, docker_login, s3, ecr_repos, ecr_images, jobs,
                   local_runs>>
    /\ UNCHANGED trials
    /\ UNCHANGED given

\* Mutant: the status cell returns only once the job has ended.
StatusCell_Waits ==
    /\ pc \in {"status", "done"}
    /\ Len(status_seen) < MaxPolls
    /\ \A j \in jobs : j.name = tuning_job_name => j.status # "InProgress"
    /\ LET found == describe_hyper_parameter_tuning_job(tuning_job_name)
       IN  IF found = {}
           THEN /\ Raise("ClientError")
                /\ issued' = Append(issued, Op("describe_hyper_parameter_tuning_job", FALSE))
                /\ UNCHANGED status_seen
           ELSE /\ Goto(Successor("status"))
                /\ issued' = Append(issued, Op("describe_hyper_parameter_tuning_job", TRUE))
                /\ status_seen' = Append(status_seen, CHOOSE st \in found : TRUE)
    /\ UNCHANGED kernel
    /\ UNCHANGED <<docker_images, docker_login, s3, ecr_repos, ecr_images, jobs,
                   local_runs>>
    /\ UNCHANGED trials
    /\ UNCHANGED given

\* The caller runs the status cell, and may run it again.
StatusCell ==
    /\ pc \in {"status", "done"}
    /\ Len(status_seen) < MaxPolls
    /\ LET found == describe_hyper_parameter_tuning_job(tuning_job_name)
       IN  IF found = {}
           THEN /\ Raise("ClientError")
                /\ issued' = Append(issued, Op("describe_hyper_parameter_tuning_job", FALSE))
                /\ UNCHANGED status_seen
           ELSE /\ Goto(Successor("status"))
                /\ issued' = Append(issued, Op("describe_hyper_parameter_tuning_job", TRUE))
                /\ status_seen' = Append(status_seen, CHOOSE st \in found : TRUE)
    /\ UNCHANGED kernel
    /\ UNCHANGED <<docker_images, docker_login, s3, ecr_repos, ecr_images, jobs,
                   local_runs>>
    /\ UNCHANGED trials
    /\ UNCHANGED given

\* ------------------------------------------------------- the tuning service

TerminalStatuses == {"Completed", "Failed", "Stopped"}

\* The service ends a job that is in progress.
ServiceEndsJob ==
    \E j \in jobs, st \in TerminalStatuses :
        /\ j.status = "InProgress"
        /\ jobs' = (jobs \ {j}) \cup {[j EXCEPT !.status = st]}
        /\ UNCHANGED <<pc, error, issued, docker_images, docker_login, s3, ecr_repos,
                       ecr_images, local_runs, status_seen>>
        /\ UNCHANGED kernel
        /\ UNCHANGED trials
        /\ UNCHANGED given

Next ==
    \/ BuildCell
    \/ UploadCell
    \/ HyperparametersCell
    \/ LocalRunCell
    \/ LocalRunReturns
    \/ SkipLocalTest
    \/ PushCell
    \/ TuningConfigCell
    \/ TrainingDefinitionCell
    \/ SubmitCell
    \/ StatusCell
    \/ ServiceEndsJob

Spec == Init /\ [][Next]_vars

SpecPackager == InitPackager /\ [][Next]_vars

\* The job of the recorded run (374), since completed: what a later run of the
\* notebook finds at the service.
EarlierJob ==
    [name |-> TuningJobName(RecordedTime),
     config |-> TuningJobConfig(NotebookLiterals.ContinuousParameterRanges,
                                NotebookLiterals.IntegerParameterRanges,
                                NotebookLiterals.MaxNumberOfTrainingJobs,
                                NotebookLiterals.MaxParallelTrainingJobs),
     definition |-> TrainingJobDefinition(
                        get_image_name(ecr_repository, tensorflow_version_tag),
                        [train |-> upload_data(bucket, key_prefix("train")),
                         test |-> upload_data(bucket, key_prefix("test"))]),
     status |-> "Completed"]

\* The notebook as written, run when the service holds no job or the earlier
\* one, at the recorded day and time of a later month or at another time.
InitService == InitWith(OneExampleDatasets, {NotebookLiterals}, Times,
                        {{}, {EarlierJob}})

SpecService == InitService /\ [][Next]_vars

\* The service starts a training job of the run's tuning job, within the
\* ResourceLimits the job was submitted with.
TrialStarts ==
    /\ \E j \in jobs :
          /\ j.name = tuning_job_name
          /\ j.status = "InProgress"
          /\ trials.running < j.config.ResourceLimits.MaxParallelTrainingJobs
          /\ trials.launched < j.config.ResourceLimits.MaxNumberOfTrainingJobs
    /\ trials.launched < MaxTrials
    /\ trials' = [running |-> trials.running + 1, launched |-> trials.launched + 1]
    /\ UNCHANGED <<pc, error, issued, docker_images, docker_login, s3, ecr_repos,
                   ecr_images, jobs, local_runs, status_seen>>
    /\ UNCHANGED kernel
    /\ UNCHANGED given

\* A training job of the tuning job ends.
TrialEnds ==
    /\ trials.running > 0
    /\ trials' = [trials EXCEPT !.running = @ - 1]
    /\ UNCHANGED <<pc, error, issued, docker_images, docker_login, s3, ecr_repos,
                   ecr_images, jobs, local_runs, status_seen>>
    /\ UNCHANGED kernel
    /\ UNCHANGED given

NextTrials ==
    \/ Next
    \/ TrialStarts
    \/ TrialEnds

\* The notebook with each pair of resource limits, at the recorded time.
LimitEdits ==
    {l \in EditedLiterals :
        /\ l.ContinuousParameterRanges = NotebookLiterals.ContinuousParameterRanges
        /\ l.IntegerParameterRanges = NotebookLiterals.IntegerParameterRanges}

InitTrials == InitWith(OneExampleDatasets, LimitEdits, {RecordedTime}, {{}})

SpecTrials == InitTrials /\ [][NextTrials]_vars

\* The tags the build cell's comment (135-136) names, and the one it sets.
VersionTags == {tensorflow_version_tag, "latest", "latest-gpu"}

\* The notebook with each of the version tags written in the build cell.
InitBuild == InitGiven(OneExampleDatasets, {NotebookLiterals}, {RecordedTime}, {{}},
                       VersionTags)

SpecBuild == InitBuild /\ [][Next]_vars

\* The cells of the notebook: every step but the service's own.
Cells ==
    \/ BuildCell
    \/ UploadCell
    \/ HyperparametersCell
    \/ LocalRunCell
    \/ LocalRunReturns
    \/ SkipLocalTest
    \/ PushCell
    \/ TuningConfigCell
    \/ TrainingDefinitionCell
    \/ SubmitCell
    \/ StatusCell

\* The notebook as written, at the recorded time.
InitNotebook == InitWith(OneExampleDatasets, {NotebookLiterals}, {RecordedTime}, {{}})

\* Run to the end: a cell that can run does run, and a blocking call returns.
\* Nothing is assumed of the service: it may leave a job in progress for ever.
SpecLive == InitNotebook /\ [][Next]_vars /\ WF_vars(Cells)

\* ------------------------------------------------------------------ claims

Ops == {issued[i].op : i \in DOMAIN issued}

Issued(op) == op \in Ops

\* Every issue of b comes after an issue of a.
Precedes(a, b) ==
    \A j \in DOMAIN issued :
        issued[j].op = b => \E i \in 1..(j - 1) : issued[i].op = a

\* Every issue of b comes after an issue of a that succeeded.
PrecedesOk(a, b) ==
    \A j \in DOMAIN issued :
        issued[j].op = b => \E i \in 1..(j - 1) : issued[i].op = a /\ issued[i].ok

SeqRange(q) == {q[i] : i \in DOMAIN q}

AllRanges(config) ==
    SeqRange(config.ParameterRanges.ContinuousParameterRanges)
        \cup SeqRange(config.ParameterRanges.IntegerParameterRanges)

SearchedNames(config) ==
    {r.Name : r \in AllRanges(config)
                  \cup SeqRange(config.ParameterRanges.CategoricalParameterRanges)}

\* The number a bound written as a string stands for, in ten-thousandths.
Decimal(text) ==
    CASE text = "0.0001" -> 1
      [] text = "0.001" -> 10
      [] text = "1" -> 10000
      [] text = "5" -> 50000

Submitted == Issued("create_hyper_parameter_tuning_job")

\* C1: when a parameter name is both searched and static, configuration
\* assembly fails and create_hyper_parameter_tuning_job is never called.
C1_CollisionNeverSubmitted ==
    Submitted =>
        SearchedNames(tuning_job_config)
            \cap DOMAIN training_job_definition.StaticHyperParameters = {}

\* C2: when MaxParallelTrainingJobs exceeds MaxNumberOfTrainingJobs,
\* configuration assembly fails and no submission is made.
C2_LimitsOrderNeverSubmitted ==
    Submitted =>
        tuning_job_config.ResourceLimits.MaxParallelTrainingJobs
            <= tuning_job_config.ResourceLimits.MaxNumberOfTrainingJobs

\* C3: when a continuous or integer range has MinValue >= MaxValue,
\* configuration assembly fails and no submission is made.
C3_EmptyRangeNeverSubmitted ==
    Submitted =>
        \A r \in AllRanges(tuning_job_config) :
            Decimal(r.MinValue) < Decimal(r.MaxValue)

\* C4: the steps run in the order build, upload, (local run), push, submit,
\* poll: the push cell starts only after the build and both uploads succeeded,
\* a local run lies between the uploads and the push cell, the job is submitted
\* only after docker push has returned, and a status poll only after a
\* submission.
C4_StepOrder ==
    /\ PrecedesOk("docker build", "upload_channel")
    /\ PrecedesOk("docker build", "aws ecr describe-repositories")
    /\ \A j \in DOMAIN issued :
          issued[j].op \in {"aws ecr describe-repositories", "estimator.fit"} =>
              \A c \in ChannelNames :
                  \E i \in 1..(j - 1) :
                      /\ issued[i].op = "upload_channel"
                      /\ issued[i].channel = c
                      /\ issued[i].ok
    /\ \A i \in DOMAIN issued : \A j \in DOMAIN issued :
          (issued[i].op = "aws ecr describe-repositories" /\ issued[j].op = "estimator.fit")
              => j < i
    /\ Precedes("aws ecr describe-repositories", "docker push")
    /\ Precedes("docker push", "create_hyper_parameter_tuning_job")
    /\ Precedes("create_hyper_parameter_tuning_job", "describe_hyper_parameter_tuning_job")

\* A run that went through every step, the local run included, and polled.
C4_Witness ==
    /\ pc = "done"
    /\ Issued("estimator.fit")
    /\ Issued("describe_hyper_parameter_tuning_job")

\* C5: submission is atomic: every job the service knows holds both the
\* tuning-job configuration and the training-job definition the run
\* submitted, and a refused submission leaves no job.
C5_AtomicSubmission ==
    /\ \A j \in jobs :
          /\ j.config # Unbound
          /\ j.definition # Unbound
          /\ j.config = tuning_job_config
          /\ j.definition = training_job_definition
    /\ error = "ClientError" => jobs = {}
    /\ Cardinality(jobs) <= 1

\* A submission the service refused.
C5_Witness ==
    /\ error = "ClientError"
    /\ Submitted
    /\ training_job_definition # Unbound

\* The location of the archive an object key names: the key's prefix.
ArchivesAt(uri) ==
    {a \in s3 : uri \o "/cifar-10-npz-compressed.npz" = "s3://" \o bucket \o "/" \o a.key}

Labels(channel_name) ==
    IF channel_name = "train" THEN cifar10.y_train ELSE cifar10.y_test

\* C6: for each channel, train and test, the location the upload returned is
\* where that split's archive is, is the S3Uri of the input-channel entry of
\* the same name, and is what the local run was given; the input channels are
\* exactly train and test.
C6_ChannelRoundTrip ==
    /\ "channels" \in defined =>
          \A c \in ChannelNames :
              /\ ArchivesAt(channels[c]) # {}
              /\ \A a \in ArchivesAt(channels[c]) :
                    a.y = to_categorical(Labels(c), NUM_CLASSES)
    /\ "training_job_definition" \in defined =>
          LET entries == training_job_definition.InputDataConfig
          IN  /\ Len(entries) = Cardinality(ChannelNames)
              /\ {entries[i].ChannelName : i \in DOMAIN entries} = ChannelNames
              /\ \A i \in DOMAIN entries :
                    entries[i].DataSource.S3DataSource.S3Uri
                        = channels[entries[i].ChannelName]
    /\ \A i \in DOMAIN local_runs : local_runs[i].inputs = channels

\* A submitted job, after a local run, on splits with different labels.
C6_Witness ==
    /\ jobs # {}
    /\ local_runs # <<>>
    /\ cifar10.y_train # cifar10.y_test

\* C7: the configuration for one continuous parameter learning_rate in
\* [0.0001, 0.001], 9 total and 9 parallel jobs, Bayesian, minimize loss has a
\* parameter-range section with exactly that one continuous entry and empty
\* categorical and integer lists.
C7_LearningRatePayload ==
    (literals = NotebookLiterals /\ "tuning_job_config" \in defined) =>
        /\ tuning_job_config.ParameterRanges =
              [CategoricalParameterRanges |-> <<>>,
               ContinuousParameterRanges |->
                   <<[Name |-> "learning_rate", MinValue |-> "0.0001",
                      MaxValue |-> "0.001"]>>,
               IntegerParameterRanges |-> <<>>]
        /\ tuning_job_config.ResourceLimits =
              [MaxNumberOfTrainingJobs |-> 9, MaxParallelTrainingJobs |-> 9]
        /\ tuning_job_config.Strategy = "Bayesian"
        /\ tuning_job_config.HyperParameterTuningJobObjective =
              [MetricName |-> "loss", Type |-> "Minimize"]
        /\ \A j \in jobs : j.config = tuning_job_config

\* The notebook's configuration, submitted.
C7_Witness ==
    /\ literals = NotebookLiterals
    /\ jobs # {}

ArchiveOf(channel_name) ==
    {a \in s3 : a.key = key_prefix(channel_name) \o "/cifar-10-npz-compressed.npz"}

\* C8: every uploaded split has one row per label, each row NUM_CLASSES wide
\* with a single 1, at the label's index; a split with a label >= NUM_CLASSES
\* is not uploaded: its upload_channel call ends the cell with IndexError.
C8_OneHotOrFail ==
    \A c \in ChannelNames :
        /\ \A a \in ArchiveOf(c) :
              /\ Len(a.y) = Len(Labels(c))
              /\ \A i \in DOMAIN a.y :
                    /\ DOMAIN a.y[i] = 0..(NUM_CLASSES - 1)
                    /\ {j \in DOMAIN a.y[i] : a.y[i][j] # 0} = {Labels(c)[i]}
                    /\ a.y[i][Labels(c)[i]] = 1
        /\ (\E i \in DOMAIN Labels(c) : Labels(c)[i] >= NUM_CLASSES) =>
              /\ ArchiveOf(c) = {}
              /\ "channels" \notin defined
              /\ \A i \in DOMAIN issued :
                    (issued[i].op = "upload_channel" /\ issued[i].channel = c) =>
                        ~issued[i].ok /\ error = "IndexError"

\* The train split was encoded and uploaded, two labels of it, and the test
\* split, its second label out of range, was refused.
C8_Witness ==
    /\ error = "IndexError"
    /\ Len(cifar10.y_train) = MaxExamples
    /\ ArchiveOf("train") # {}
    /\ Len(cifar10.y_test) = MaxExamples
    /\ cifar10.y_test[1] < NUM_CLASSES

\* C9: the local test is optional: in a run that skips it, the configuration
\* and submit cells find every name they read bound by an earlier cell.
C9_LocalTestOptional ==
    /\ pc = "training_definition" => TrainingDefinitionReads \subseteq defined
    /\ pc = "submit" => SubmitReads \subseteq defined
    /\ error # "NameError"

\* C10: the push cell issues create-repository exactly when the repository
\* does not exist: right after a describe-repositories that did not find it,
\* and never after one that found it.
C10_CreateIffAbsent ==
    \A i \in DOMAIN issued :
        issued[i].op = "aws ecr describe-repositories" =>
            /\ i < Len(issued)
            /\ (issued[i + 1].op = "aws ecr create-repository") = ~issued[i].ok

Failed(ops) == \E i \in DOMAIN issued : issued[i].op \in ops /\ ~issued[i].ok

\* C11: a docker build that exits non-zero ends the run with
\* CalledProcessError: the build is issued once, and nothing is uploaded, run
\* locally, pushed or submitted after it.
C11_BuildFailureAborts ==
    \A i \in DOMAIN issued :
        issued[i].op = "docker build" =>
            /\ i = 1
            /\ ~issued[i].ok =>
                  /\ Len(issued) = 1
                  /\ pc = "aborted"
                  /\ error = "CalledProcessError"
                  /\ docker_images = {}
                  /\ s3 = {}
                  /\ local_runs = <<>>
                  /\ ecr_images = {}
                  /\ jobs = {}

\* The build exited non-zero.
C11_Witness ==
    /\ Failed({"docker build"})
    /\ error = "CalledProcessError"

\* C12: a registry login or an image push that exits non-zero ends the run
\* with an error, so no tuning job is submitted after a failed push.
C12_FailedPushEndsRun ==
    Failed({"aws ecr get-login", "docker push"}) =>
        /\ pc = "aborted"
        /\ error # "none"
        /\ ~Submitted

LastIssued == issued[Len(issued)]

\* The step is a create_hyper_parameter_tuning_job request with answer ok.
SubmitStep(ok) ==
    /\ Len(issued') = Len(issued) + 1
    /\ issued'[Len(issued')] = Op("create_hyper_parameter_tuning_job", ok)

\* C13: when the service rejects the submission the error reaches the caller
\* (ClientError ends the run) and no job is created: the set of jobs is the
\* same after the request as before it.
C13_RejectedSubmissionCreatesNothing ==
    [][SubmitStep(FALSE) =>
          /\ jobs' = jobs
          /\ pc' = "aborted"
          /\ error' = "ClientError"]_vars

\* A rejected submission, at a service that holds the earlier job.
C13_Witness ==
    /\ issued # <<>>
    /\ LastIssued = Op("create_hyper_parameter_tuning_job", FALSE)
    /\ error = "ClientError"
    /\ jobs = {EarlierJob}

\* The step is a describe_hyper_parameter_tuning_job request that was answered.
PollStep ==
    /\ Len(issued') = Len(issued) + 1
    /\ issued'[Len(issued')] = Op("describe_hyper_parameter_tuning_job", TRUE)

\* A step of the workflow: a cell ran, or a request was issued.
WorkflowStep == pc' # pc \/ issued' # issued

\* C14: only the service changes a job's lifecycle state.  No step of the
\* workflow changes a job the service holds, and a poll returns the state the
\* job is in at that moment and leaves every job as it is, however many polls
\* are made.
C14_OnlyServiceChangesJobState ==
    [][/\ WorkflowStep => \A j \in jobs : j \in jobs'
       /\ PollStep =>
             /\ jobs' = jobs
             /\ Len(status_seen') = Len(status_seen) + 1
             /\ \E j \in jobs :
                   /\ j.name = tuning_job_name
                   /\ status_seen'[Len(status_seen')] = j.status]_vars

\* Two polls: the first saw the job in progress, the service ended it, and the
\* second saw it ended.
C14_Witness ==
    /\ Len(status_seen) = MaxPolls
    /\ status_seen[1] = "InProgress"
    /\ status_seen[MaxPolls] \in TerminalStatuses
    /\ \E j \in jobs : j.name = tuning_job_name /\ j.status = status_seen[MaxPolls]

\* C15: the submitter does not wait for the job: the run reaches its end (or
\* has ended with an error) whether or not the service ever moves the job out
\* of InProgress.
C15_RunEndsWithoutJobEnding == <>(pc \in {"done", "aborted"})

\* The run is over, every poll made, and the job is still in progress.
C15_Witness ==
    /\ pc = "done"
    /\ Len(status_seen) = MaxPolls
    /\ \E j \in jobs : j.name = tuning_job_name /\ j.status = "InProgress"

\* The local-run stage: the local run is under way, or the caller has
\* interrupted it and the cell after it has not run yet.
LocalTestRunningOrInterrupted ==
    /\ local_runs # <<>>
    /\ \/ /\ pc = "local_running"
          /\ local_runs[Len(local_runs)].outcome = "running"
       \/ /\ pc = "push"
          /\ local_runs[Len(local_runs)].outcome = "KeyboardInterrupt"
          /\ LastIssued = [op |-> "estimator.fit", ok |-> FALSE]

\* The step that ends the local run is the caller's interruption.
InterruptStep ==
    /\ pc = "local_running"
    /\ pc' # pc
    /\ local_runs'[Len(local_runs')].outcome = "KeyboardInterrupt"

\* C16: while the local smoke test is running, and when the caller has
\* interrupted it, no tuning job has been created at the service and the
\* image has not yet been pushed to the registry; the interruption itself
\* changes no job and pushes nothing.
C16_LocalTestBeforeCloud ==
    /\ [](LocalTestRunningOrInterrupted =>
            (/\ jobs = {}
             /\ ecr_images = {}
             /\ ~Issued("docker push")
             /\ ~Submitted))
    /\ [][InterruptStep => (jobs' = jobs /\ ecr_images' = ecr_images)]_vars

\* The caller has interrupted the local run, as in the recorded run, and the
\* push cell is next.
C16_Witness ==
    /\ LocalTestRunningOrInterrupted
    /\ pc = "push"
    /\ docker_images # {}
    /\ s3 # {}

\* The name the notebook gives the job at each of the times of a run.
DefaultName ==
    IF gmtime = RecordedTime
    THEN "BYO-keras-tuningjob-28-18-37-26"
    ELSE "BYO-keras-tuningjob-01-00-05-09"

\* C17: the service holds at most one job per name.  A submission under a
\* name in use is rejected and leaves the job of that name as it is; a
\* submission succeeds only under a name no job has.  The default name is
\* 'BYO-keras-tuningjob-' followed by day-hour-minute-second of the UTC time,
\* which two runs can share.
C17_OneJobPerName ==
    /\ [](\A j, k \in jobs : j.name = k.name => j = k)
    /\ []("tuning_job_name" \in defined => tuning_job_name = DefaultName)
    /\ [][SubmitStep(TRUE) =>
            (/\ tuning_job_name \notin JobNames
             /\ jobs' = jobs \cup {[name |-> tuning_job_name,
                                     config |-> tuning_job_config,
                                     definition |-> training_job_definition,
                                     status |-> "InProgress"]})]_vars
    /\ [][((SubmitStep(FALSE) \/ SubmitStep(TRUE)) /\ tuning_job_name \in JobNames) =>
            (/\ SubmitStep(FALSE)
             /\ jobs' = jobs
             /\ error' = "ClientError")]_vars

\* A run on the day and at the time of the earlier job's run, a month on: its
\* default name is the earlier job's, and the submission was rejected.
C17_Witness ==
    /\ EarlierJob \in jobs
    /\ tuning_job_name = EarlierJob.name
    /\ issued # <<>>
    /\ LastIssued = Op("create_hyper_parameter_tuning_job", FALSE)
    /\ pc = "aborted"

\* The external operations of a run: the build, the upload of each channel,
\* the local run, the push and the submission.
ExternalOps == {"docker build", "upload_channel", "estimator.fit", "docker push",
                "create_hyper_parameter_tuning_job"}

SameOperation(a, b) ==
    /\ a.op = b.op
    /\ a.op = "upload_channel" => a.channel = b.channel

\* C18: nothing is retried: each external operation is attempted at most
\* once in a run, and once one of them has failed the run performs no further
\* operation.
C18_NoRetryStopAtFailure ==
    \A i \in DOMAIN issued :
        issued[i].op \in ExternalOps =>
            /\ \A j \in DOMAIN issued : SameOperation(issued[i], issued[j]) => i = j
            /\ ~issued[i].ok => (i = Len(issued) /\ pc = "aborted")

\* The locations a training job definition names, one per channel.
ChannelUris(definition) ==
    {definition.InputDataConfig[i].DataSource.S3DataSource.S3Uri :
        i \in DOMAIN definition.InputDataConfig}

\* C19: when the upload of a channel fails the error ends the run without a
\* retry, the channel map is not produced, and no job is ever submitted with
\* a missing or partial channel: every job names two locations, each holding
\* its archive.
C19_UploadFailureAborts ==
    /\ \A i \in DOMAIN issued :
          issued[i].op = "upload_channel" =>
              /\ \A j \in DOMAIN issued : SameOperation(issued[i], issued[j]) => i = j
              /\ ~issued[i].ok =>
                    /\ i = Len(issued)
                    /\ pc = "aborted"
                    /\ error \in {"S3UploadFailedError", "IndexError"}
                    /\ "channels" \notin defined
                    /\ channels = Unbound
                    /\ ~Submitted
    /\ "channels" \in defined => \A c \in ChannelNames : ArchivesAt(channels[c]) # {}
    /\ \A j \in jobs :
          /\ Cardinality(ChannelUris(j.definition)) = Cardinality(ChannelNames)
          /\ \A uri \in ChannelUris(j.definition) : ArchivesAt(uri) # {}

\* The train archive is in the bucket and the upload of the test split failed.
C19_Witness ==
    /\ error = "S3UploadFailedError"
    /\ issued # <<>>
    /\ LastIssued = [op |-> "upload_channel", channel |-> "test", ok |-> FALSE]
    /\ s3 # {}
    /\ channels = Unbound

\* The limit on parallel training jobs the run asked for, once its job exists.
ParallelLimit ==
    IF \E j \in jobs : j.name = tuning_job_name
    THEN literals.MaxParallelTrainingJobs
    ELSE 0

\* C20: once the job is submitted, the number of its training jobs running at
\* the same time never exceeds the MaxParallelTrainingJobs written in the
\* tuning configuration, however their starts and ends interleave.
C20_ParallelTrialsBounded == trials.running <= ParallelLimit

\* The limit is reached after an earlier training job has ended.
C20_Witness ==
    /\ trials.running = literals.MaxParallelTrainingJobs
    /\ trials.launched > trials.running
    /\ literals.MaxParallelTrainingJobs < literals.MaxNumberOfTrainingJobs

\* The documents the run holds are the ones its job was submitted with.
DocumentsAsSubmitted ==
    \A j \in jobs :
        j.name = tuning_job_name =>
            (j.config = tuning_job_config /\ j.definition = training_job_definition)

\* C21: the tuning-job configuration and the training-job definition are
\* built once and no step changes them afterwards: after the submission, and
\* after any number of polls, the run holds the documents it submitted.
C21_DocumentsImmutable ==
    /\ [][tuning_job_config # Unbound => tuning_job_config' = tuning_job_config]_vars
    /\ [][training_job_definition # Unbound =>
            training_job_definition' = training_job_definition]_vars
    /\ [](Submitted => DocumentsAsSubmitted)

\* Every poll made, and the run still holds the submitted documents.
C21_Witness ==
    /\ Len(status_seen) = MaxPolls
    /\ tuning_job_config # Unbound
    /\ training_job_definition # Unbound
    /\ \E j \in jobs : j.name = tuning_job_name
    /\ DocumentsAsSubmitted

StaticNames(definition) == DOMAIN definition.StaticHyperParameters

\* C22: in every job the service holds, no hyperparameter is both static and
\* searched: the names of StaticHyperParameters are disjoint from the names
\* in the ParameterRanges lists.
C22_StaticSearchedDisjoint ==
    \A j \in jobs : StaticNames(j.definition) \cap SearchedNames(j.config) = {}

\* C23: in every tuning-job configuration the run holds or has submitted,
\* 1 <= MaxParallelTrainingJobs <= MaxNumberOfTrainingJobs.
C23_LimitsOrdered ==
    \A config \in {j.config : j \in jobs}
                    \cup (IF tuning_job_config = Unbound THEN {} ELSE {tuning_job_config}) :
        /\ 1 <= config.ResourceLimits.MaxParallelTrainingJobs
        /\ config.ResourceLimits.MaxParallelTrainingJobs
              <= config.ResourceLimits.MaxNumberOfTrainingJobs

TrainingImage(j) == j.definition.AlgorithmSpecification.TrainingImage

\* The image the build tagged is the one the local run used and the job names.
SameReference(j) ==
    /\ \A i \in DOMAIN issued :
          issued[i].op = "docker build" => issued[i].tag = TrainingImage(j)
    /\ \A i \in DOMAIN local_runs : local_runs[i].image = TrainingImage(j)
    /\ TrainingImage(j) = image_name

\* C24: one image reference serves the whole run: the reference the build
\* tagged is the one the local run used, the one pushed, and the
\* TrainingImage of the submitted job, so a job never names an image that
\* was not built and pushed in the run.
C24_OneImageReference ==
    \A j \in jobs :
        /\ SameReference(j)
        /\ TrainingImage(j) \in docker_images
        /\ TrainingImage(j) \in ecr_images

\* The key of each channel's archive, written out.
ExpectedKey(channel_name) ==
    IF channel_name = "train"
    THEN "data/DEMO-keras-cifar10/train/cifar-10-npz-compressed.npz"
    ELSE "data/DEMO-keras-cifar10/test/cifar-10-npz-compressed.npz"

Uploaded(channel_name) ==
    \E i \in DOMAIN issued :
        issued[i] = [op |-> "upload_channel", channel |-> channel_name, ok |-> TRUE]

\* C25: the key an archive is uploaded under depends on the channel name
\* alone, 'data/DEMO-keras-cifar10/<channel>/...', whatever the data; the two
\* channels have different keys, so each uploaded split is in the bucket
\* under its own key and the later upload does not replace the earlier one.
C25_KeyByChannel ==
    /\ \A c \in ChannelNames :
          Uploaded(c) =>
              \E a \in s3 :
                  /\ a.key = ExpectedKey(c)
                  /\ a.x = Len(Labels(c))
                  /\ a.y = to_categorical(Labels(c), NUM_CLASSES)
    /\ \A a \in s3 : \E c \in ChannelNames : Uploaded(c) /\ a.key = ExpectedKey(c)
    /\ \A a, b \in s3 : a.key = b.key => a = b

\* Both splits uploaded, of different sizes, and two archives in the bucket.
C25_Witness ==
    /\ Uploaded("train")
    /\ Uploaded("test")
    /\ Cardinality(s3) = Cardinality(ChannelNames)
    /\ Len(cifar10.y_train) # Len(cifar10.y_test)

\* C26: the job is InProgress when the submission succeeds, and what
\* successive polls return moves only from InProgress to one of Completed,
\* Failed, Stopped: every poll returns one of these four strings, and after a
\* poll has returned a terminal state every later poll returns the same one.
C26_ObservedLifecycle ==
    /\ [](\A i \in DOMAIN status_seen :
            /\ status_seen[i] \in {"InProgress"} \cup TerminalStatuses
            /\ status_seen[i] \in TerminalStatuses =>
                  \A k \in i..Len(status_seen) : status_seen[k] = status_seen[i])
    /\ [][SubmitStep(TRUE) =>
            \A j \in jobs' : j.name = tuning_job_name => j.status = "InProgress"]_vars

\* Every poll was made after the service ended the job.
C26_Witness ==
    /\ Len(status_seen) = MaxPolls
    /\ status_seen[1] \in TerminalStatuses
    /\ status_seen[MaxPolls] = status_seen[1]

\* The metric definitions of a job that carry the objective's name.
ObjectiveDefinitions(j) ==
    LET metrics == j.definition.AlgorithmSpecification.MetricDefinitions
    IN  {i \in DOMAIN metrics :
            metrics[i].Name = j.config.HyperParameterTuningJobObjective.MetricName}

\* C27: the objective metric of a submitted job is one its training-job
\* definition extracts: the objective's MetricName, 'loss', is the Name of
\* exactly one entry of MetricDefinitions.
C27_ObjectiveIsDefined ==
    \A j \in jobs :
        /\ j.config.HyperParameterTuningJobObjective.MetricName = "loss"
        /\ Cardinality(ObjectiveDefinitions(j)) = 1

\* A job the service registered, with the notebook's literals.
C27_Witness ==
    /\ literals = NotebookLiterals
    /\ \E j \in jobs :
          /\ j.name = tuning_job_name
          /\ ObjectiveDefinitions(j) # {}

\* '<repository>:tensorflow-<version>' for each version, written out.
ExpectedImage ==
    CASE version_tag = "1.10.1" ->
            "023375022819.dkr.ecr.us-east-1.amazonaws.com/test:tensorflow-1.10.1"
      [] version_tag = "latest" ->
            "023375022819.dkr.ecr.us-east-1.amazonaws.com/test:tensorflow-latest"
      [] version_tag = "latest-gpu" ->
            "023375022819.dkr.ecr.us-east-1.amazonaws.com/test:tensorflow-latest-gpu"

\* C28: get_image_name(repository, version) is '<repository>:tensorflow-
\* <version>'; the image is built under that name, and the version in its tag
\* is the version handed to the build as the VERSION build argument.
C28_TagEncodesVersion ==
    /\ "image_name" \in defined => image_name = ExpectedImage
    /\ \A i \in DOMAIN issued :
          issued[i].op = "docker build" =>
              /\ issued[i].tag = ExpectedImage
              /\ issued[i].VERSION = version_tag
              /\ issued[i].tag = ecr_repository \o ":tensorflow-" \o issued[i].VERSION
    /\ docker_images \subseteq {ExpectedImage}

\* An image built from a base image other than the one the notebook sets.
C28_Witness ==
    /\ version_tag = "latest-gpu"
    /\ docker_images = {ExpectedImage}
    /\ issued # <<>>
    /\ issued[1].op = "docker build"
    /\ issued[1].ok

====
